---- MODULE Spec2Model ----
(***************************************************************************)
(* ksp.duration / ksp.time: the Duration value type of the in-game time    *)
(* calculator.  A Duration stores one Python float (_seconds); the model   *)
(* keeps that float as an IEEE-754 binary64 value and carries out every    *)
(* arithmetic step of the source with binary64 rounding (round to nearest, *)
(* ties to even).                                                          *)
(***************************************************************************)
EXTENDS Integers, Sequences, FiniteSets, TLC

(***************************************************************************)
(* Natural numbers of arbitrary size: little-endian sequences of limbs     *)
(* below Base, without leading (most significant) zero limbs.  They carry  *)
(* the 53-bit significands and the wider intermediate results.             *)
(***************************************************************************)
LimbBits == 14 + 1
Base == 2 ^ LimbBits

RECURSIVE BStrip(_)
BStrip(s) ==
    IF s = <<>> THEN <<>>
    ELSE IF s[Len(s)] = 0 THEN BStrip(SubSeq(s, 1, Len(s) - 1))
    ELSE s

RECURSIVE BFromInt(_)
BFromInt(n) == IF n = 0 THEN <<>> ELSE <<n % Base>> \o BFromInt(n \div Base)

RECURSIVE BToInt(_)
BToInt(s) == IF s = <<>> THEN 0 ELSE Head(s) + Base * BToInt(Tail(s))

Rest(s) == IF s = <<>> THEN <<>> ELSE Tail(s)
First(s) == IF s = <<>> THEN 0 ELSE Head(s)

RECURSIVE BCmpFrom(_, _, _)
\* compares limbs i, i-1, ..., 1 of two numbers of the same length
BCmpFrom(a, b, i) ==
    IF i = 0 THEN 0
    ELSE IF a[i] # b[i] THEN (IF a[i] < b[i] THEN -1 ELSE 1)
    ELSE BCmpFrom(a, b, i - 1)

\* -1, 0, 1 as a < b, a = b, a > b
BCmp(a, b) ==
    IF Len(a) # Len(b) THEN (IF Len(a) < Len(b) THEN -1 ELSE 1)
    ELSE BCmpFrom(a, b, Len(a))

RECURSIVE BAddC(_, _, _)
BAddC(a, b, c) ==
    IF a = <<>> /\ b = <<>> THEN (IF c = 0 THEN <<>> ELSE <<c>>)
    ELSE <<(First(a) + First(b) + c) % Base>>
         \o BAddC(Rest(a), Rest(b), (First(a) + First(b) + c) \div Base)

BAdd(a, b) == BAddC(a, b, 0)

RECURSIVE BSubB(_, _, _)
\* a - b - borrow, for a >= b + borrow
BSubB(a, b, c) ==
    IF a = <<>> THEN <<>>
    ELSE IF First(a) - First(b) - c < 0
         THEN <<First(a) - First(b) - c + Base>> \o BSubB(Rest(a), Rest(b), 1)
         ELSE <<First(a) - First(b) - c>> \o BSubB(Rest(a), Rest(b), 0)

BSub(a, b) == BStrip(BSubB(a, b, 0))

RECURSIVE BMulSmallC(_, _, _)
BMulSmallC(a, m, c) ==
    IF a = <<>> THEN (IF c = 0 THEN <<>> ELSE <<c>>)
    ELSE <<(Head(a) * m + c) % Base>> \o BMulSmallC(Tail(a), m, (Head(a) * m + c) \div Base)

BMulSmall(a, m) == IF m = 0 THEN <<>> ELSE BMulSmallC(a, m, 0)

\* a * Base
BShiftLimb(a) == IF a = <<>> THEN <<>> ELSE <<0>> \o a

RECURSIVE BMul(_, _)
BMul(a, b) ==
    IF a = <<>> \/ b = <<>> THEN <<>>
    ELSE BAdd(BMulSmall(a, Head(b)), BShiftLimb(BMul(a, Tail(b))))

RECURSIVE Zeros(_)
Zeros(n) == IF n = 0 THEN <<>> ELSE <<0>> \o Zeros(n - 1)

\* a * 2^k
BShl(a, k) ==
    IF a = <<>> THEN <<>>
    ELSE Zeros(k \div LimbBits) \o BMulSmall(a, 2 ^ (k % LimbBits))

RECURSIVE BShrBits(_, _)
\* floor(t / 2^r) for 0 <= r < LimbBits, before stripping
BShrBits(t, r) ==
    IF t = <<>> THEN <<>>
    ELSE <<(Head(t) \div (2 ^ r))
           + (First(Tail(t)) % (2 ^ r)) * (2 ^ (LimbBits - r))>> \o BShrBits(Tail(t), r)

\* floor(a / 2^k)
BShr(a, k) ==
    IF k \div LimbBits >= Len(a) THEN <<>>
    ELSE BStrip(BShrBits(SubSeq(a, (k \div LimbBits) + 1, Len(a)), k % LimbBits))

RECURSIVE IntBitLen(_)
IntBitLen(n) == IF n = 0 THEN 0 ELSE 1 + IntBitLen(n \div 2)

BBitLen(a) == IF a = <<>> THEN 0 ELSE LimbBits * (Len(a) - 1) + IntBitLen(a[Len(a)])

BIsOdd(a) == a # <<>> /\ Head(a) % 2 = 1

RECURSIVE IntTrailingZeros(_)
IntTrailingZeros(n) == IF n % 2 = 1 THEN 0 ELSE 1 + IntTrailingZeros(n \div 2)

RECURSIVE BTrailingZeros(_)
\* for a # 0
BTrailingZeros(a) ==
    IF Head(a) = 0 THEN LimbBits + BTrailingZeros(Tail(a))
    ELSE IntTrailingZeros(Head(a))

RECURSIVE BDigit(_, _, _, _)
\* the largest d with lo <= d < hi and b * d <= r, given b * lo <= r < b * hi
BDigit(r, b, lo, hi) ==
    IF hi - lo = 1 THEN lo
    ELSE IF BCmp(BMulSmall(b, (lo + hi) \div 2), r) <= 0
         THEN BDigit(r, b, (lo + hi) \div 2, hi)
         ELSE BDigit(r, b, lo, (lo + hi) \div 2)

\* one step of long division: r is the running remainder with the next limb
\* brought down, q the quotient so far, d the next quotient limb
BDivEmit(r, q, b, d) == <<BStrip(<<d>> \o q), BSub(r, BMulSmall(b, d))>>
BDivLimb(r, q, b) ==
    IF BCmp(r, b) < 0 THEN <<BShiftLimb(q), r>>
    ELSE BDivEmit(r, q, b, BDigit(r, b, 1, Base))
BDivStep(limb, hi, b) == BDivLimb(BStrip(<<limb>> \o hi[2]), hi[1], b)

RECURSIVE BDivLong(_, _)
BDivLong(a, b) ==
    IF a = <<>> THEN <<<<>>, <<>>>>
    ELSE BDivStep(Head(a), BDivLong(Tail(a), b), b)

\* the same with a divisor d of one limb: cur is the remainder with the next
\* limb brought down
BDivSmallEmit(cur, q, d) == <<BStrip(<<cur \div d>> \o q), BFromInt(cur % d)>>
BDivSmallStep(limb, hi, d) == BDivSmallEmit(BToInt(hi[2]) * Base + limb, hi[1], d)

RECURSIVE BDivSmall(_, _)
BDivSmall(a, d) ==
    IF a = <<>> THEN <<<<>>, <<>>>>
    ELSE BDivSmallStep(Head(a), BDivSmall(Tail(a), d), d)

\* <<floor(a / b), a mod b>> for b # 0: long division, one limb of a at a time
BDivMod(a, b) == IF Len(b) = 1 THEN BDivSmall(a, b[1]) ELSE BDivLong(a, b)

(***************************************************************************)
(* Python float (binary64).  A finite value is sign * m * 2^e with m odd   *)
(* (or m = 0, e = 0), so that equal values are equal records.  Signed zero *)
(* is not distinguished: the source only compares (<, ==) and applies %    *)
(* and int(), all of which treat -0.0 as 0.0.  Exponent range (overflow,   *)
(* subnormals), infinities and NaN are outside the model.                  *)
(***************************************************************************)
Precision == 52 + 1

FZero == [neg |-> FALSE, m |-> <<>>, e |-> 0]

FShift(neg, m, e, tz) == [neg |-> neg, m |-> BShr(m, tz), e |-> e + tz]

FNormalize(neg, m, e) ==
    IF m = <<>> THEN FZero ELSE FShift(neg, m, e, BTrailingZeros(m))

\* q is m without its low sh bits; the dropped bits (with sticky) decide the
\* direction: above half, or half and q odd, rounds up
FRoundUp(m, q, sh, sticky) ==
    \/ BCmp(BShl(BSub(m, BShl(q, sh)), 1), BShl(<<1>>, sh)) > 0
    \/ /\ BCmp(BShl(BSub(m, BShl(q, sh)), 1), BShl(<<1>>, sh)) = 0
       /\ (sticky \/ BIsOdd(q))

FRoundTo(neg, m, e, sticky, sh, q) ==
    FNormalize(neg, IF FRoundUp(m, q, sh, sticky) THEN BAdd(q, <<1>>) ELSE q, e + sh)

FRoundBy(neg, m, e, sticky, sh) == FRoundTo(neg, m, e, sticky, sh, BShr(m, sh))

\* sign * (m + sticky) * 2^e rounded to Precision bits, to nearest, ties to even;
\* sticky says that a nonzero amount below one unit of m was dropped
FRound(neg, m, e, sticky) ==
    IF BBitLen(m) <= Precision THEN FNormalize(neg, m, e)
    ELSE FRoundBy(neg, m, e, sticky, BBitLen(m) - Precision)

FromInt(n) == IF n < 0 THEN FRound(TRUE, BFromInt(-n), 0, FALSE)
              ELSE FRound(FALSE, BFromInt(n), 0, FALSE)

Min(p, q) == IF p < q THEN p ELSE q
Max(p, q) == IF p > q THEN p ELSE q

\* the significand of x scaled to exponent e <= x.e
Aligned(x, e) == BShl(x.m, x.e - e)

FNeg(x) == IF x.m = <<>> THEN x ELSE [x EXCEPT !.neg = ~x.neg]

\* -1, 0, 1 as x < y, x = y, x > y
FCmp(x, y) ==
    IF x.m = <<>> /\ y.m = <<>> THEN 0
    ELSE IF x.m = <<>> THEN (IF y.neg THEN 1 ELSE -1)
    ELSE IF y.m = <<>> THEN (IF x.neg THEN -1 ELSE 1)
    ELSE IF x.neg # y.neg THEN (IF x.neg THEN -1 ELSE 1)
    ELSE IF x.neg THEN BCmp(Aligned(y, Min(x.e, y.e)), Aligned(x, Min(x.e, y.e)))
    ELSE BCmp(Aligned(x, Min(x.e, y.e)), Aligned(y, Min(x.e, y.e)))

FLt(x, y) == FCmp(x, y) < 0
FEq(x, y) == FCmp(x, y) = 0

\* the exact sum of xneg * xm * 2^e and yneg * ym * 2^e, as <<neg, m, e>>
ExactSum(xneg, xm, yneg, ym, e) ==
    IF xneg = yneg THEN <<xneg, BAdd(xm, ym), e>>
    ELSE IF BCmp(xm, ym) >= 0 THEN <<xneg, BSub(xm, ym), e>>
    ELSE <<yneg, BSub(ym, xm), e>>

ExactAddAt(x, y, e) == ExactSum(x.neg, Aligned(x, e), y.neg, Aligned(y, e), e)

ExactAdd(x, y) == ExactAddAt(x, y, Min(x.e, y.e))

FRoundExact(s) == FRound(s[1], s[2], s[3], FALSE)

FAdd(x, y) == FRoundExact(ExactAdd(x, y))

FSub(x, y) == FAdd(x, FNeg(y))

FMul(x, y) == FRound(x.neg # y.neg, BMul(x.m, y.m), x.e + y.e, FALSE)

FDivRound(neg, qr, e) == FRound(neg, qr[1], e, qr[2] # <<>>)

\* the quotient of x.m * 2^k by y.m has at least Precision + 2 bits
FDivBy(x, y, k) == FDivRound(x.neg # y.neg, BDivMod(BShl(x.m, k), y.m), x.e - y.e - k)

\* x / y for y # 0
FDiv(x, y) ==
    IF x.m = <<>> THEN FZero
    ELSE FDivBy(x, y, Max(0, Precision + 2 + BBitLen(y.m) - BBitLen(x.m)))

\* r is C's fmod(x, y) (exact, with the sign of x); Python adds y when r is
\* nonzero and negative
FModFix(r, y) == IF r.m # <<>> /\ r.neg THEN FAdd(r, y) ELSE r

FModAt(x, y, e) ==
    FModFix(FNormalize(x.neg, BDivMod(Aligned(x, e), Aligned(y, e))[2], e), y)

\* Python's x % y on floats, for y > 0
FMod(x, y) == FModAt(x, y, Min(x.e, y.e))

\* Python's int(x): truncation toward zero
FTrunc(x) ==
    IF x.neg THEN -BToInt(IF x.e >= 0 THEN BShl(x.m, x.e) ELSE BShr(x.m, -x.e))
    ELSE BToInt(IF x.e >= 0 THEN BShl(x.m, x.e) ELSE BShr(x.m, -x.e))

(***************************************************************************)
(* Module constants of ksp/duration.py and ksp/time.py.  mod names the     *)
(* module ("duration" or "time") whose Duration class is in use.           *)
(***************************************************************************)
Modules == {"duration", "time"}

SECONDS_PER_MINUTE == FromInt(60)
MINUTES_PER_HOUR == FromInt(60)
\* faulty variant: the 24-hour day of Earth
HOURS_PER_DAY_Earth == FromInt(24)

HOURS_PER_DAY == FromInt(6)
\* time.py: the literal 2556.5
HOURS_PER_YEAR == FDiv(FromInt(5113), FromInt(2))

SECONDS_PER_HOUR == FMul(SECONDS_PER_MINUTE, MINUTES_PER_HOUR)
SECONDS_PER_DAY == FMul(SECONDS_PER_HOUR, HOURS_PER_DAY)

DAYS_PER_YEAR(mod) ==
    IF mod = "duration" THEN FromInt(426) ELSE FDiv(HOURS_PER_YEAR, HOURS_PER_DAY)

SECONDS_PER_YEAR(mod) ==
    IF mod = "duration" THEN FMul(SECONDS_PER_DAY, DAYS_PER_YEAR(mod))
    ELSE FMul(SECONDS_PER_HOUR, HOURS_PER_YEAR)

(***************************************************************************)
(* Duration.  An object is [_seconds |-> float].  A call's outcome is a    *)
(* record with status "ok", "ValueError" or "ZeroDivisionError"; with the  *)
(* first two, _seconds is the total __init__ computed (and, when ok,       *)
(* stored in the returned object).                                         *)
(***************************************************************************)
\* faulty variants of the check: none at all, and one that also refuses zero
Checked_Never(total) == [status |-> "ok", _seconds |-> total]

Checked_RefusesZero(total) ==
    IF FLt(total, FZero) \/ total = FZero
    THEN [status |-> "ValueError", _seconds |-> total]
    ELSE [status |-> "ok", _seconds |-> total]

\* the check that ends __init__: self._seconds is total
Checked(total) ==
    IF FLt(total, FZero)
    THEN [status |-> "ValueError", _seconds |-> total]
    ELSE [status |-> "ok", _seconds |-> total]

__init__(mod, years, days, hours, minutes, seconds) ==
    Checked(FAdd(FAdd(FAdd(FAdd(FMul(SECONDS_PER_YEAR(mod), years),
                                FMul(SECONDS_PER_DAY, days)),
                           FMul(SECONDS_PER_HOUR, hours)),
                      FMul(SECONDS_PER_MINUTE, minutes)),
                 seconds))

\* Duration(seconds=s): the other arguments take their default 0.0
FromSeconds(mod, s) == __init__(mod, FZero, FZero, FZero, FZero, s)

as_seconds(self) == self._seconds
as_minutes(self) == FDiv(self._seconds, SECONDS_PER_MINUTE)
as_hours(self) == FDiv(self._seconds, SECONDS_PER_HOUR)
as_days(self) == FDiv(self._seconds, SECONDS_PER_DAY)
as_years(mod, self) == FDiv(self._seconds, SECONDS_PER_YEAR(mod))

timestamp_seconds(self) == FTrunc(FMod(as_seconds(self), SECONDS_PER_MINUTE))
timestamp_minutes(self) == FTrunc(FMod(as_minutes(self), MINUTES_PER_HOUR))
\* faulty variant: the whole hour count, not wrapped at the day
timestamp_hours_Whole(self) == FTrunc(as_hours(self))

timestamp_hours(self) == FTrunc(FMod(as_hours(self), HOURS_PER_DAY))

\* faulty variant: the whole day count in both modules
timestamp_days_Whole(mod, self) == FTrunc(as_days(self))

\* duration.py wraps the days at the year; time.py returns the whole day count
timestamp_days(mod, self) ==
    IF mod = "duration" THEN FTrunc(FMod(as_days(self), DAYS_PER_YEAR(mod)))
    ELSE FTrunc(as_days(self))

\* duration.py only
timestamp_years(mod, self) == FTrunc(as_years(mod, self))

__add__(mod, self, rhs) == FromSeconds(mod, FAdd(self._seconds, rhs._seconds))

\* faulty variant: a negative difference is clamped to zero
__sub__Clamped(mod, self, rhs) ==
    IF FLt(self._seconds, rhs._seconds) THEN FromSeconds(mod, FZero)
    ELSE FromSeconds(mod, FSub(self._seconds, rhs._seconds))

__sub__(mod, self, rhs) == FromSeconds(mod, FSub(self._seconds, rhs._seconds))

__mul__(mod, self, rhs) == FromSeconds(mod, FMul(self._seconds, rhs))

\* faulty variant: divides by the magnitude of the factor
__truediv__ByMagnitude(mod, self, rhs) ==
    IF rhs = FZero THEN [status |-> "ZeroDivisionError"]
    ELSE FromSeconds(mod, FDiv(self._seconds, [rhs EXCEPT !.neg = FALSE]))

\* float division by zero raises before Duration(...) is called
__truediv__(mod, self, rhs) ==
    IF rhs = FZero THEN [status |-> "ZeroDivisionError"]
    ELSE FromSeconds(mod, FDiv(self._seconds, rhs))

__eq__(self, rhs) == FEq(self._seconds, rhs._seconds)
__lt__(self, rhs) == FLt(self._seconds, rhs._seconds)
\* functools.total_ordering: a > b is not (a < b) and a != b
__gt__(self, rhs) == ~__lt__(self, rhs) /\ ~__eq__(self, rhs)

(***************************************************************************)
(* Strings are sequences of one-character strings.                         *)
(***************************************************************************)
DigitChar(d) == <<"0", "1", "2", "3", "4", "5", "6", "7", "8", "9">>[d + 1]

RECURSIVE IntToStr(_)
\* '{}'.format(n) for an int n >= 0
IntToStr(n) == IF n < 10 THEN <<DigitChar(n)>>
               ELSE IntToStr(n \div 10) \o <<DigitChar(n % 10)>>

\* '{}y {}d {}h {}m {}s'.format(...) and its shorter forms
Fmt_s(s) == IntToStr(s) \o <<"s">>
Fmt_ms(m, s) == IntToStr(m) \o <<"m", " ">> \o Fmt_s(s)
Fmt_hms(h, m, s) == IntToStr(h) \o <<"h", " ">> \o Fmt_ms(m, s)
Fmt_dhms(d, h, m, s) == IntToStr(d) \o <<"d", " ">> \o Fmt_hms(h, m, s)
Fmt_ydhms(y, d, h, m, s) == IntToStr(y) \o <<"y", " ">> \o Fmt_dhms(d, h, m, s)

\* faulty variant: always starts at the days
Branches_FromDays(mod, y, d, h, m, s) == Fmt_dhms(d, h, m, s)

\* the branches of __repr__ on the timestamp_* properties of self; the years
\* branch exists in duration.py only
Branches(mod, y, d, h, m, s) ==
    IF mod = "duration" /\ y > 0 THEN Fmt_ydhms(y, d, h, m, s)
    ELSE IF d > 0 THEN Fmt_dhms(d, h, m, s)
    ELSE IF h > 0 THEN Fmt_hms(h, m, s)
    ELSE IF m > 0 THEN Fmt_ms(m, s)
    ELSE Fmt_s(s)

\* faulty variant: the year-aware __repr__ of duration.py in both modules
__repr__YearAware(mod, self) ==
    Branches("duration", timestamp_years("duration", self),
             timestamp_days("duration", self), timestamp_hours(self),
             timestamp_minutes(self), timestamp_seconds(self))

__repr__(mod, self) ==
    Branches(mod,
             IF mod = "duration" THEN timestamp_years(mod, self) ELSE 0,
             timestamp_days(mod, self), timestamp_hours(self),
             timestamp_minutes(self), timestamp_seconds(self))

(***************************************************************************)
(* A session with one of the two modules: two names a and b bound to       *)
(* Durations, the arithmetic calls made on a since it was constructed      *)
(* (log), and the most recent call with its outcome (last).                *)
(***************************************************************************)
VARIABLES module, a, b, log, last

vars == <<module, a, b, log, last>>

\* bound on the number of arithmetic calls applied to a
MaxOps == 2

\* 0.9, 0.2 and -0.2 as Python parses the literals (the nearest binary64)
F09 == FDiv(FromInt(9), FromInt(10))
F02 == FDiv(FromInt(2), FromInt(10))

\* (years, days, hours, minutes, seconds) passed to Duration(...)
DocArgs == <<FZero, FromInt(201), FromInt(4), FromInt(28), FromInt(20)>>

ConstructArgs ==
    { <<FZero, FZero, FZero, FZero, FZero>>,
      <<FZero, FZero, FZero, FZero, F09>>,
      <<FZero, FZero, FZero, FZero, F02>>,
      DocArgs,
      <<FromInt(1), FromInt(-1), FZero, FZero, FZero>>,
      <<FZero, FromInt(-1), FZero, FZero, FZero>>,
      <<FZero, FZero, FZero, FromInt(1), FromInt(-61)>> }

\* factors passed to * and /
Factors == {FromInt(-1), FZero, FromInt(6), FromInt(7)}

Object(out) == [_seconds |-> out._seconds]

Init ==
    /\ module \in Modules
    /\ a = Object(FromSeconds(module, FZero))
    /\ b = Object(FromSeconds(module, FZero))
    /\ log = <<>>
    /\ last = [op |-> "none"]

\* target = Duration(years, days, hours, minutes, seconds)
Bind(target, args, out) ==
    /\ log = <<>>
    /\ last' = [op |-> "init", target |-> target, args |-> args, out |-> out]
    /\ a' = IF target = "a" /\ out.status = "ok" THEN Object(out) ELSE a
    /\ b' = IF target = "b" /\ out.status = "ok" THEN Object(out) ELSE b
    /\ UNCHANGED <<module, log>>

ConstructWith(target, args) ==
    Bind(target, args, __init__(module, args[1], args[2], args[3], args[4], args[5]))

Construct == \E target \in {"a", "b"}, args \in ConstructArgs : ConstructWith(target, args)

\* a = a <op> rhs; a keeps its value when the call raises
Arith(op, rhs, out) ==
    /\ Len(log) < MaxOps
    /\ a' = IF out.status = "ok" THEN Object(out) ELSE a
    /\ log' = Append(log, [op |-> op, self |-> a, rhs |-> rhs, out |-> out])
    /\ last' = [op |-> op, self |-> a, rhs |-> rhs, out |-> out]
    /\ UNCHANGED <<module, b>>

Add == Arith("add", b, __add__(module, a, b))

Subtract == Arith("sub", b, __sub__(module, a, b))

Scale == \E k \in Factors : Arith("mul", k, __mul__(module, a, k))

Divide == \E k \in Factors : Arith("truediv", k, __truediv__(module, a, k))

\* repr(a)
Repr ==
    /\ last.op # "repr"
    /\ last' = [op |-> "repr", self |-> a, str |-> __repr__(module, a)]
    /\ UNCHANGED <<module, a, b, log>>

Next == Construct \/ Add \/ Subtract \/ Scale \/ Divide \/ Repr

Spec == Init /\ [][Next]_vars

(***************************************************************************)
(* Formatting and decomposition over a grid of constructor arguments.      *)
(***************************************************************************)
FmtYears == {FZero, FromInt(1), FromInt(2)}
FmtDays == {FZero, FromInt(1), FromInt(425), FromInt(427)}
FmtHours == {FZero, FromInt(1), FromInt(5)}
FmtMinutes == {FZero, FromInt(1), FromInt(59)}
FmtSeconds == {FZero, FromInt(45), FNeg(F02)}

\* the first call of the session constructs a from the grid
ConstructFmt ==
    /\ last.op = "none"
    /\ \E y \in FmtYears, d \in FmtDays, h \in FmtHours, m \in FmtMinutes, s \in FmtSeconds :
           ConstructWith("a", <<y, d, h, m, s>>)

NextFmt == ConstructFmt \/ Repr

SpecFmt == Init /\ [][NextFmt]_vars

(***************************************************************************)
(* The properties checked.                                                 *)
(***************************************************************************)
\* every call with an outcome the state records: the arithmetic calls on a, and
\* the last call when it is a constructor call
Calls == {log[i] : i \in 1..Len(log)} \cup (IF last.op = "init" THEN {last} ELSE {})

NonNegative(d) == ~FLt(d._seconds, FZero)
IsZero(f) == f.m = <<>>
IsNegative(f) == f.m # <<>> /\ f.neg
IsPositive(f) == f.m # <<>> /\ ~f.neg

WeightedSum(mod, args) ==
    FAdd(FAdd(FAdd(FAdd(FMul(SECONDS_PER_YEAR(mod), args[1]),
                        FMul(SECONDS_PER_DAY, args[2])),
                   FMul(SECONDS_PER_HOUR, args[3])),
              FMul(SECONDS_PER_MINUTE, args[4])),
         args[5])

IsWhole(f) == f.e >= 0
AllWhole(args) == \A i \in 1..5 : IsWhole(args[i])

\* the same sum in exact integer arithmetic, for whole-number arguments
YearLength(mod) == IF mod = "duration" THEN 426 * 6 * 3600 ELSE 5113 * 1800
IntWeightedSum(mod, args) ==
    YearLength(mod) * FTrunc(args[1]) + 21600 * FTrunc(args[2])
    + 3600 * FTrunc(args[3]) + 60 * FTrunc(args[4]) + FTrunc(args[5])

Bound(target) == IF target = "a" THEN a ELSE b

\* C2: Duration(years, days, hours, minutes, seconds) raises ValueError exactly
\* when the weighted sum is negative; otherwise it returns a Duration whose
\* as_seconds is that sum, also when single arguments are negative.  For
\* whole-number arguments the sum is the exact integer sum.
C2_ConstructFailsIffNegative ==
    last.op = "init" =>
        LET sum == WeightedSum(module, last.args)
        IN /\ last.out.status = "ValueError" <=> FLt(sum, FZero)
           /\ last.out.status # "ValueError" =>
                 /\ last.out.status = "ok"
                 /\ as_seconds(Bound(last.target)) = sum
           /\ AllWhole(last.args) =>
                 /\ sum = FromInt(IntWeightedSum(module, last.args))
                 /\ last.out.status = "ValueError"
                       <=> IntWeightedSum(module, last.args) < 0

\* a constructor call with a negative argument that succeeded
C2_Witness ==
    /\ last.op = "init"
    /\ last.out.status = "ok"
    /\ \E i \in 1..5 : IsNegative(last.args[i])
    /\ IsPositive(Bound(last.target)._seconds)

\* a - b followed at once by + b (b is the same: it is not rebound meanwhile)
RoundTrips == {i \in 1..(Len(log) - 1) : log[i].op = "sub" /\ log[i + 1].op = "add"}

SubFailsIffGreater ==
    \A i \in 1..Len(log) :
        log[i].op = "sub" =>
            IF __gt__(log[i].rhs, log[i].self)
            THEN log[i].out.status = "ValueError"
            ELSE log[i].out.status = "ok"

\* C3 as stated: a - b raises ValueError when b > a; otherwise it succeeds and
\* (a - b) + b == a.
C3_Original ==
    /\ SubFailsIffGreater
    /\ \A i \in RoundTrips :
          log[i].out.status = "ok" =>
              /\ log[i + 1].out.status = "ok"
              /\ __eq__(Object(log[i + 1].out), log[i].self)

\* the width of the significand m, from its highest to its lowest set bit
SignificantBits(m) == IF m = <<>> THEN 0 ELSE BBitLen(m) - BTrailingZeros(m)

\* the float subtraction x - y is exact: the difference needs no rounding
ExactDifference(x, y) == SignificantBits(ExactAdd(x, FNeg(y))[2]) <= Precision

\* C3 amended: a - b raises ValueError when b > a; otherwise it succeeds, and
\* (a - b) + b == a whenever the difference a - b is computed without rounding.
C3_Amended ==
    /\ SubFailsIffGreater
    /\ \A i \in RoundTrips :
          log[i].out.status = "ok" =>
              /\ log[i + 1].out.status = "ok"
              /\ ExactDifference(log[i].self._seconds, log[i].rhs._seconds)
                    => __eq__(Object(log[i + 1].out), log[i].self)

\* a round trip with a nonzero b and a nonzero exact difference
C3_Witness ==
    /\ Len(log) = 2
    /\ 1 \in RoundTrips
    /\ log[1].out.status = "ok"
    /\ IsPositive(log[1].rhs._seconds)
    /\ IsPositive(log[1].out._seconds)
    /\ ExactDifference(log[1].self._seconds, log[1].rhs._seconds)
    /\ __eq__(a, log[1].self)

Divisions == {c \in Calls : c.op = "truediv"}

C5_SingleErrorKind ==
    \A c \in Calls : c.out.status # "ok" => c.out.status = "ValueError"

Str_235d_2h_13m_3s ==
    <<"2", "3", "5", "d", " ", "2", "h", " ", "1", "3", "m", " ", "3", "s">>

DocExample ==
    /\ Len(log) = 2
    /\ log[1].op = "mul" /\ log[1].rhs = FromInt(7)
    /\ log[1].self = Object(__init__(module, DocArgs[1], DocArgs[2], DocArgs[3],
                                     DocArgs[4], DocArgs[5]))
    /\ log[2].op = "truediv" /\ log[2].rhs = FromInt(6)

\* C6: Duration(days=201, hours=4, minutes=28, seconds=20) * 7 / 6 succeeds
\* and its repr is "235d 2h 13m 3s".
C6_DocExample ==
    DocExample =>
        /\ log[1].out.status = "ok"
        /\ log[2].out.status = "ok"
        /\ a = Object(log[2].out)
        /\ last.op = "repr" => last.str = Str_235d_2h_13m_3s

C6_Witness == DocExample /\ last.op = "repr" /\ last.str = Str_235d_2h_13m_3s

\* the timestamp components of d with their unit letters, coarsest first
Components(mod, d) ==
    (IF mod = "duration" THEN <<[n |-> timestamp_years(mod, d), u |-> "y"]>> ELSE <<>>)
    \o <<[n |-> timestamp_days(mod, d), u |-> "d"],
         [n |-> timestamp_hours(d), u |-> "h"],
         [n |-> timestamp_minutes(d), u |-> "m"],
         [n |-> timestamp_seconds(d), u |-> "s"]>>

\* the first component above the seconds that is > 0, else the seconds
Leading(cs) ==
    IF \E i \in 1..(Len(cs) - 1) : cs[i].n > 0
    THEN CHOOSE i \in 1..(Len(cs) - 1) :
             cs[i].n > 0 /\ \A j \in 1..(i - 1) : cs[j].n = 0
    ELSE Len(cs)

RECURSIVE JoinFrom(_, _)
\* "{n}{u}" of the components i.., separated by single spaces
JoinFrom(cs, i) ==
    IntToStr(cs[i].n) \o <<cs[i].u>>
    \o (IF i = Len(cs) THEN <<>> ELSE <<" ">> \o JoinFrom(cs, i + 1))

\* C7: repr starts with the coarsest unit whose timestamp component is > 0 and
\* lists every finer unit down to the seconds, zero components included; with
\* nothing above the seconds > 0 it is "{timestamp_seconds}s".
C7_FormatRule ==
    last.op = "repr" =>
        LET cs == Components(module, last.self)
        IN /\ last.str = JoinFrom(cs, Leading(cs))
           /\ (\A i \in 1..(Len(cs) - 1) : cs[i].n = 0) =>
                  last.str = IntToStr(timestamp_seconds(last.self)) \o <<"s">>

\* a repr led by the hours, with zero minutes and seconds listed
C7_Witness ==
    /\ last.op = "repr"
    /\ last.str = <<"1", "h", " ", "0", "m", " ", "0", "s">>

\* the timestamp components put together again
Recomposed(mod, d) ==
    (IF mod = "duration" THEN timestamp_years(mod, d) * YearLength(mod) ELSE 0)
    + timestamp_days(mod, d) * 21600 + timestamp_hours(d) * 3600
    + timestamp_minutes(d) * 60 + timestamp_seconds(d)

Days427 == <<FZero, FromInt(427), FZero, FZero, FZero>>

InBounds(mod, d) ==
    /\ timestamp_seconds(d) \in 0..59
    /\ timestamp_minutes(d) \in 0..59
    /\ timestamp_hours(d) \in 0..5
    /\ timestamp_days(mod, d) >= 0
    /\ mod = "duration" => timestamp_days(mod, d) < 426 /\ timestamp_years(mod, d) >= 0

C9_ComponentBounds == InBounds(module, a) /\ InBounds(module, b)

\* a result of arithmetic longer than a year, with a fraction of a second
C9_Witness ==
    /\ module = "duration"
    /\ Len(log) = 2
    /\ timestamp_years(module, a) >= 1
    /\ ~IsWhole(a._seconds)

StartsWith(str, prefix) ==
    Len(str) >= Len(prefix) /\ SubSeq(str, 1, Len(prefix)) = prefix

\* both modules' Duration(seconds=s)
InDuration(s) == Object(FromSeconds("duration", s))
InTime(s) == Object(FromSeconds("time", s))

\* C10: for the same stored seconds s, the repr of duration.py and of time.py
\* are the same string when s is less than 426 days; from 426 days on they
\* differ: time.py leads with the whole day count (>= 426), duration.py with a
\* years term followed by a day count < 426.
C10_Variants ==
    LET s == a._seconds
    IN IF FLt(s, FromInt(426 * 6 * 3600))
       THEN __repr__("duration", InDuration(s)) = __repr__("time", InTime(s))
       ELSE /\ __repr__("duration", InDuration(s)) # __repr__("time", InTime(s))
            /\ timestamp_days("time", InTime(s)) >= 426
            /\ StartsWith(__repr__("time", InTime(s)),
                          IntToStr(timestamp_days("time", InTime(s))) \o <<"d", " ">>)
            /\ timestamp_days("duration", InDuration(s)) < 426
            /\ StartsWith(__repr__("duration", InDuration(s)),
                          IntToStr(timestamp_years("duration", InDuration(s)))
                          \o <<"y", " ">>
                          \o IntToStr(timestamp_days("duration", InDuration(s)))
                          \o <<"d", " ">>)

\* repr of a Duration of a year and a day in duration.py
C10_Witness ==
    /\ module = "duration"
    /\ last.op = "repr"
    /\ last.str = <<"1", "y", " ", "1", "d", " ", "0", "h", " ", "0", "m", " ", "0", "s">>
====
